---- MODULE Spec2Model ----
(***************************************************************************)
(* Model of graphos' edge module (src/graphos/src/edge.py): the routing of *)
(* an edge between two nodes (get_line_breakdown), its rendering onto a    *)
(* window through a viewport offset (connect_nodes, with get_safe_x and    *)
(* get_safe_y of utils.py) and its (de)serialization (to_json, from_json). *)
(* Node (graphos/src/node.py) is not part of the sources at hand: what the *)
(* edge module reads of it is modelled from the specification.             *)
(***************************************************************************)
EXTENDS Integers, Sequences, FiniteSets, TLC

VARIABLES
    nodes,     \* the Node objects: reference -> fields
    edge,      \* the Edge object: id, source and target (node references)
    pc,        \* "idle", "routed", "drawn" (a frame); "loading", "loaded" (an edge)
    lines,     \* the list get_line_breakdown returned last
    resets,    \* the nodes reset_edges was invoked on by that call, in order
    win,       \* the window of the last connect_nodes: getmaxyx()
    offset,    \* the Offset of the last connect_nodes
    calls,     \* the draw calls connect_nodes issued, in order
    data,      \* the value handed to from_json (or made by to_json)
    nodelist,  \* the node list handed to from_json
    result     \* the outcome of the last from_json

vars == <<nodes, edge, pc, lines, resets, win, offset, calls, data, nodelist, result>>

routeVars == <<pc, lines, resets, win, offset, calls>>
jsonVars == <<data, nodelist, result>>

----------------------------------------------------------------------------
(* Bounds *)

\* node 2 is placed at most this far (per axis) from node 1
MaxDist == 6
\* node widths and heights range over 1..MaxSize
MaxSize == 2
\* window heights and widths range over 1..MaxWin
MaxWin == 2
\* viewport offsets range over -MaxOff..MaxOff per axis
MaxOff == 1
\* where frames are rendered, node 2 is at most this far (per axis) from node 1
RenderDist == 2

Abs(i) == IF i < 0 THEN -i ELSE i

NodeRefs == {1, 2, 3}
Sides == {"top", "bottom", "left", "right"}
Coords == (0 - MaxDist)..MaxDist
RenderCoords == (0 - RenderDist)..RenderDist
Sizes == 1..MaxSize

----------------------------------------------------------------------------
(* Node: position, size, derived center, the markers of connected sides *)

Node(id, x, y, width, height, marked) ==
    [id |-> id, x |-> x, y |-> y, width |-> width, height |-> height,
     center_x |-> x + width \div 2, center_y |-> y + height \div 2,
     marked |-> marked]

reset_edges(ns, r) == [ns EXCEPT ![r].marked = {}]

----------------------------------------------------------------------------
(* Routing *)

LineSegment(type, x, y, length) ==
    [type |-> type, x |-> x, y |-> y, length |-> length]

\* mutant: the source is always the left and the top node
determine_relative_nodes_source(ns, e) ==
    <<e.source, e.target, e.source, e.target>>

\* mutant: left and top are chosen by comparing the centers
determine_relative_nodes_centers(ns, e) ==
    LET node_1 == e.source
        node_2 == e.target
    IN  <<IF ns[node_1].center_x < ns[node_2].center_x THEN node_1 ELSE node_2,
          IF ns[node_1].center_x < ns[node_2].center_x THEN node_2 ELSE node_1,
          IF ns[node_1].center_y < ns[node_2].center_y THEN node_1 ELSE node_2,
          IF ns[node_1].center_y < ns[node_2].center_y THEN node_2 ELSE node_1>>

\* <<left, right, top, bottom>>, as node references
determine_relative_nodes(ns, e) ==
    LET node_1 == e.source
        node_2 == e.target
    IN  <<IF ns[node_1].x < ns[node_2].x THEN node_1 ELSE node_2,
          IF ns[node_1].x < ns[node_2].x THEN node_2 ELSE node_1,
          IF ns[node_1].y < ns[node_2].y THEN node_1 ELSE node_2,
          IF ns[node_1].y < ns[node_2].y THEN node_2 ELSE node_1>>

\* mutant: both branches return the same pair
determine_corner_types_same(top_node, bottom_node) ==
    IF top_node.center_x > bottom_node.center_x
    THEN <<"ACS_LLCORNER", "ACS_URCORNER">>
    ELSE IF top_node.center_x < bottom_node.center_x
         THEN <<"ACS_LLCORNER", "ACS_URCORNER">>
         ELSE <<"None", "None">>

determine_corner_types(top_node, bottom_node) ==
    IF top_node.center_x > bottom_node.center_x
    THEN <<"ACS_LRCORNER", "ACS_ULCORNER">>
    ELSE IF top_node.center_x < bottom_node.center_x
         THEN <<"ACS_LLCORNER", "ACS_URCORNER">>
         ELSE <<"None", "None">>

determine_horizontal_corner_types(left_node, right_node) ==
    IF left_node.center_y > right_node.center_y
    THEN <<"ACS_LRCORNER", "ACS_ULCORNER">>
    ELSE IF left_node.center_y < right_node.center_y
         THEN <<"ACS_URCORNER", "ACS_LLCORNER">>
         ELSE <<"None", "None">>

\* mutant: a tie goes to the horizontal connector
has_vertical_bias_strict(x_diff, y_diff) == x_diff = 0 \/ x_diff < y_diff

has_vertical_bias(x_diff, y_diff) == x_diff = 0 \/ x_diff <= y_diff

\* mutant: both halves are the floor half, the remainder is lost
create_vertical_connection_lossy(left_node, right_node, top_node, bottom_node, x_diff, y_diff) ==
    LET y_diff_1 == y_diff \div 2 - top_node.height \div 2
        y_diff_2 == y_diff \div 2 - bottom_node.height \div 2
        corners == determine_corner_types(top_node, bottom_node)
        h_line_x == IF left_node.center_x < right_node.center_x
                    THEN left_node.center_x
                    ELSE right_node.center_x + 1
        h_line_y == bottom_node.center_y - y_diff_2 - bottom_node.height \div 2
        has_corners == corners[1] # "None" /\ corners[2] # "None"
        y_1 == IF has_corners THEN y_diff_1 - 1 ELSE y_diff_1
        y_2 == IF has_corners THEN y_diff_2 - 1 ELSE y_diff_2
    IN  <<LineSegment("horizontal", h_line_x, h_line_y, x_diff)>>
        \o (IF has_corners
            THEN <<LineSegment(corners[1], top_node.center_x,
                               top_node.center_y + top_node.height \div 2 + y_diff_1, 0),
                   LineSegment(corners[2], bottom_node.center_x,
                               bottom_node.center_y - y_2 - bottom_node.height \div 2 - 1, 0)>>
            ELSE <<>>)
        \o <<LineSegment("vertical", top_node.center_x,
                         top_node.center_y + top_node.height \div 2 + 1, y_1),
             LineSegment("vertical", bottom_node.center_x,
                         bottom_node.center_y - y_2 - bottom_node.height \div 2, y_2)>>

\* mutant: the crossbar always starts at the left node's center
create_vertical_connection_left(left_node, right_node, top_node, bottom_node, x_diff, y_diff) ==
    LET y_diff_1 == y_diff \div 2 - top_node.height \div 2
        y_diff_2 == (y_diff - y_diff \div 2) - bottom_node.height \div 2
        corners == determine_corner_types(top_node, bottom_node)
        h_line_x == left_node.center_x
        h_line_y == bottom_node.center_y - y_diff_2 - bottom_node.height \div 2
        has_corners == corners[1] # "None" /\ corners[2] # "None"
        y_1 == IF has_corners THEN y_diff_1 - 1 ELSE y_diff_1
        y_2 == IF has_corners THEN y_diff_2 - 1 ELSE y_diff_2
    IN  <<LineSegment("horizontal", h_line_x, h_line_y, x_diff)>>
        \o (IF has_corners
            THEN <<LineSegment(corners[1], top_node.center_x,
                               top_node.center_y + top_node.height \div 2 + y_diff_1, 0),
                   LineSegment(corners[2], bottom_node.center_x,
                               bottom_node.center_y - y_2 - bottom_node.height \div 2 - 1, 0)>>
            ELSE <<>>)
        \o <<LineSegment("vertical", top_node.center_x,
                         top_node.center_y + top_node.height \div 2 + 1, y_1),
             LineSegment("vertical", bottom_node.center_x,
                         bottom_node.center_y - y_2 - bottom_node.height \div 2, y_2)>>

create_vertical_connection(left_node, right_node, top_node, bottom_node, x_diff, y_diff) ==
    LET y_diff_1 == y_diff \div 2 - top_node.height \div 2
        y_diff_2 == (y_diff - y_diff \div 2) - bottom_node.height \div 2
        corners == determine_corner_types(top_node, bottom_node)
        h_line_x == IF left_node.center_x < right_node.center_x
                    THEN left_node.center_x
                    ELSE right_node.center_x + 1
        h_line_y == bottom_node.center_y - y_diff_2 - bottom_node.height \div 2
        has_corners == corners[1] # "None" /\ corners[2] # "None"
        \* the half lengths after the corners took their cell
        y_1 == IF has_corners THEN y_diff_1 - 1 ELSE y_diff_1
        y_2 == IF has_corners THEN y_diff_2 - 1 ELSE y_diff_2
    IN  <<LineSegment("horizontal", h_line_x, h_line_y, x_diff)>>
        \o (IF has_corners
            THEN <<LineSegment(corners[1], top_node.center_x,
                               top_node.center_y + top_node.height \div 2 + y_diff_1, 0),
                   LineSegment(corners[2], bottom_node.center_x,
                               bottom_node.center_y - y_2 - bottom_node.height \div 2 - 1, 0)>>
            ELSE <<>>)
        \o <<LineSegment("vertical", top_node.center_x,
                         top_node.center_y + top_node.height \div 2 + 1, y_1),
             LineSegment("vertical", bottom_node.center_x,
                         bottom_node.center_y - y_2 - bottom_node.height \div 2, y_2)>>

\* mutant: the second half length is not decremented for its corner
create_horizontal_connection_long(left_node, right_node, top_node, bottom_node, x_diff, y_diff) ==
    LET x_diff_1 == x_diff \div 2 - left_node.width \div 2
        x_diff_2 == (x_diff - x_diff \div 2) - right_node.width \div 2
        corners == determine_horizontal_corner_types(left_node, right_node)
        v_line_x == right_node.center_x - x_diff_2 - right_node.width \div 2
        v_line_y == IF bottom_node.center_y < top_node.center_y
                    THEN bottom_node.center_y
                    ELSE top_node.center_y + 1
        has_corners == corners[1] # "None" /\ corners[2] # "None"
    IN  <<LineSegment("horizontal", left_node.center_x + left_node.width \div 2,
                      left_node.center_y, x_diff_1),
          LineSegment("vertical", v_line_x, v_line_y,
                      Abs(v_line_y + y_diff - v_line_y))>>
        \o (IF has_corners
            THEN <<LineSegment(corners[1],
                               left_node.center_x + left_node.width \div 2 + x_diff_1,
                               left_node.center_y, 0),
                   LineSegment(corners[2],
                               right_node.center_x - x_diff_2 - right_node.width \div 2 - 1,
                               right_node.center_y, 0)>>
            ELSE <<>>)
        \o <<LineSegment("horizontal",
                         right_node.center_x - x_diff_2 - right_node.width \div 2,
                         right_node.center_y, x_diff_2)>>

create_horizontal_connection(left_node, right_node, top_node, bottom_node, x_diff, y_diff) ==
    LET x_diff_1 == x_diff \div 2 - left_node.width \div 2
        x_diff_2 == (x_diff - x_diff \div 2) - right_node.width \div 2
        corners == determine_horizontal_corner_types(left_node, right_node)
        v_line_x == right_node.center_x - x_diff_2 - right_node.width \div 2
        v_line_y == IF bottom_node.center_y < top_node.center_y
                    THEN bottom_node.center_y
                    ELSE top_node.center_y + 1
        has_corners == corners[1] # "None" /\ corners[2] # "None"
        \* only the second half length is decremented
        x_2 == IF has_corners THEN x_diff_2 - 1 ELSE x_diff_2
    IN  <<LineSegment("horizontal", left_node.center_x + left_node.width \div 2,
                      left_node.center_y, x_diff_1),
          LineSegment("vertical", v_line_x, v_line_y,
                      Abs(v_line_y + y_diff - v_line_y))>>
        \o (IF has_corners
            THEN <<LineSegment(corners[1],
                               left_node.center_x + left_node.width \div 2 + x_diff_1,
                               left_node.center_y, 0),
                   LineSegment(corners[2],
                               right_node.center_x - x_2 - right_node.width \div 2 - 1,
                               right_node.center_y, 0)>>
            ELSE <<>>)
        \o <<LineSegment("horizontal",
                         right_node.center_x - x_2 - right_node.width \div 2,
                         right_node.center_y, x_2)>>

\* the distances and the bias get_line_breakdown computes
x_diff_of(ns, e) ==
    LET rel == determine_relative_nodes(ns, e)
    IN  Abs(ns[rel[2]].center_x - ns[rel[1]].center_x)

y_diff_of(ns, e) ==
    LET rel == determine_relative_nodes(ns, e)
    IN  Abs(ns[rel[4]].center_y - ns[rel[3]].center_y)

\* mutant: only the first node of the pair is reset
reset_targets_first(ns, e) ==
    LET rel == determine_relative_nodes(ns, e)
    IN  IF has_vertical_bias(x_diff_of(ns, e), y_diff_of(ns, e))
        THEN <<rel[3]>>
        ELSE <<rel[1]>>

\* the nodes get_line_breakdown resets, in order
reset_targets(ns, e) ==
    LET rel == determine_relative_nodes(ns, e)
    IN  IF has_vertical_bias(x_diff_of(ns, e), y_diff_of(ns, e))
        THEN <<rel[3], rel[4]>>
        ELSE <<rel[1], rel[2]>>

\* the list get_line_breakdown returns
get_line_breakdown(ns, e) ==
    LET rel == determine_relative_nodes(ns, e)
        x_diff == x_diff_of(ns, e)
        y_diff == y_diff_of(ns, e)
    IN  IF has_vertical_bias(x_diff, y_diff)
        THEN create_vertical_connection(ns[rel[1]], ns[rel[2]], ns[rel[3]], ns[rel[4]],
                                        x_diff, y_diff)
        ELSE create_horizontal_connection(ns[rel[1]], ns[rel[2]], ns[rel[3]], ns[rel[4]],
                                          x_diff, y_diff)

----------------------------------------------------------------------------
(* Rendering: utils.get_safe_x / get_safe_y and Edge.connect_nodes *)

\* mutant: the last column is taken to be max_x
get_safe_x_wide(w, x) ==
    IF x < 0 THEN 0 ELSE IF x > w.maxx THEN w.maxx ELSE x

get_safe_x(w, x) ==
    IF x < 0 THEN 0 ELSE IF x >= w.maxx THEN w.maxx - 1 ELSE x

get_safe_y(w, y) ==
    IF y < 0 THEN 0 ELSE IF y >= w.maxy THEN w.maxy - 1 ELSE y

DrawCall(fn, y, x, ch, n) == [fn |-> fn, y |-> y, x |-> x, ch |-> ch, n |-> n]

\* the draw calls one pass of the loop of connect_nodes issues for `line`
draw_line(line, off, w) ==
    LET normalized_x == line.x - off.x
        normalized_y == line.y - off.y
        diff_deduction_x == Abs(get_safe_x(w, normalized_x) - normalized_x)
        diff_deduction_y == Abs(get_safe_y(w, normalized_y) - normalized_y)
    IN  IF line.type = "vertical"
        THEN <<DrawCall("vline", get_safe_y(w, normalized_y), get_safe_x(w, normalized_x),
                        "ACS_VLINE", line.length - diff_deduction_y)>>
        ELSE IF line.type = "horizontal"
        THEN <<DrawCall("hline", get_safe_y(w, normalized_y), get_safe_x(w, normalized_x),
                        "ACS_HLINE", line.length - diff_deduction_x)>>
        ELSE IF \/ normalized_x < 0
                \/ normalized_y < 0
                \/ normalized_x >= w.maxx
                \/ normalized_y >= w.maxy
        THEN <<>>
        ELSE <<DrawCall("addch", get_safe_y(w, normalized_y), get_safe_x(w, normalized_x),
                        line.type, 1)>>

RECURSIVE draw_lines(_, _, _)
draw_lines(ls, off, w) ==
    IF ls = <<>> THEN <<>>
    ELSE draw_line(Head(ls), off, w) \o draw_lines(Tail(ls), off, w)

----------------------------------------------------------------------------
(* Serialization: Edge.__init__, Edge.to_json, Edge.from_json *)

\* what str(uuid.uuid4()) can return: non-empty strings; a call returns one that
\* no object holds yet
Uuids == {"u1", "u2"}
\* the falsy values an edge_id can be: the empty string, None
Falsy == {"", "None"}

\* Edge.__init__; uuid4 is what str(uuid.uuid4()) returns if it is called
Edge(source, target, edge_id, uuid4) ==
    [id |-> IF edge_id \notin Falsy THEN edge_id ELSE uuid4,
     source |-> source, target |-> target]

\* A JSON value of the shapes from_json tells apart: not a dictionary, or a
\* dictionary with the set of its keys and the values under them.
NoValue == "-"
NotADict == [isdict |-> FALSE, keys |-> {}, id |-> NoValue]
NodeDict(keys, id) == [isdict |-> TRUE, keys |-> keys, id |-> id]
EdgeDict(keys, id, source, target) ==
    [isdict |-> TRUE, keys |-> keys, id |-> id, source |-> source, target |-> target]
NotAnEdgeDict ==
    [isdict |-> FALSE, keys |-> {}, id |-> NoValue, source |-> NotADict, target |-> NotADict]

Node_to_json(n) == NodeDict({"id"}, n.id)

\* mutant: the target is written under both keys
to_json_same(ns, e) ==
    EdgeDict({"id", "source", "target"}, e.id,
             Node_to_json(ns[e.target]), Node_to_json(ns[e.target]))

to_json(ns, e) ==
    EdgeDict({"id", "source", "target"}, e.id,
             Node_to_json(ns[e.source]), Node_to_json(ns[e.target]))

\* next((node for node in nodes if node.id == id), None); 0 stands for None
RECURSIVE find_node(_, _, _)
find_node(ns, nl, id) ==
    IF nl = <<>> THEN 0
    ELSE IF ns[Head(nl)].id = id THEN Head(nl)
    ELSE find_node(ns, Tail(nl), id)

NoEdge == [id |-> NoValue, source |-> 0, target |-> 0]
Raised(kind) == [kind |-> kind, edge |-> NoEdge]
Returned(e) == [kind |-> "edge", edge |-> e]

\* mutant: the target found is not tested against None
from_json_null(ns, d, nl, uuid4) ==
    IF ~d.isdict THEN Raised("format_error")
    ELSE IF "source" \notin d.keys \/ "target" \notin d.keys THEN Raised("format_error")
    ELSE IF ~d.source.isdict \/ ~d.target.isdict THEN Raised("format_error")
    ELSE IF "id" \notin d.source.keys \/ "id" \notin d.target.keys
         THEN Raised("format_error")
    ELSE LET source_node == find_node(ns, nl, d.source.id)
             target_node == find_node(ns, nl, d.target.id)
         IN  IF source_node = 0 THEN Raised("not_found_error")
             ELSE IF "id" \notin d.keys THEN Raised("KeyError")
             ELSE Returned(Edge(source_node, target_node, d.id, uuid4))

\* mutant: only the source is tested for its 'id' key, so that the lookup of
\* the target's id fails
from_json_unchecked(ns, d, nl, uuid4) ==
    IF ~d.isdict THEN Raised("format_error")
    ELSE IF "source" \notin d.keys \/ "target" \notin d.keys THEN Raised("format_error")
    ELSE IF ~d.source.isdict \/ ~d.target.isdict THEN Raised("format_error")
    ELSE IF "id" \notin d.source.keys THEN Raised("format_error")
    ELSE LET source_node == find_node(ns, nl, d.source.id)
             target_node == find_node(ns, nl, d.target.id)
         IN  IF source_node = 0 THEN Raised("not_found_error")
             ELSE IF "id" \notin d.target.keys THEN Raised("KeyError")
             ELSE IF target_node = 0 THEN Raised("not_found_error")
             ELSE IF "id" \notin d.keys THEN Raised("KeyError")
             ELSE Returned(Edge(source_node, target_node, d.id, uuid4))

\* the outcome of Edge.from_json(data, nodes): the edge returned, or the error
\* raised: a ValueError for the format ("Invalid data format. ..."), a
\* ValueError for a node not found ("Node with id ... not found."), or the
\* KeyError of data["id"]
from_json(ns, d, nl, uuid4) ==
    IF ~d.isdict THEN Raised("format_error")
    ELSE IF "source" \notin d.keys \/ "target" \notin d.keys THEN Raised("format_error")
    ELSE IF ~d.source.isdict \/ ~d.target.isdict THEN Raised("format_error")
    ELSE IF "id" \notin d.source.keys \/ "id" \notin d.target.keys
         THEN Raised("format_error")
    ELSE LET source_node == find_node(ns, nl, d.source.id)
             target_node == find_node(ns, nl, d.target.id)
         IN  IF source_node = 0 THEN Raised("not_found_error")
             ELSE IF target_node = 0 THEN Raised("not_found_error")
             ELSE IF "id" \notin d.keys THEN Raised("KeyError")
             ELSE Returned(Edge(source_node, target_node, d.id, uuid4))

----------------------------------------------------------------------------
(* The state machine *)

\* node lists handed to from_json hold at most this many nodes
MaxList == 2

NoWindow == [maxy |-> 1, maxx |-> 1]
Offset(x, y) == [x |-> x, y |-> y]
Pending == [kind |-> "pending", edge |-> NoEdge]

Windows == [maxy : 1..MaxWin, maxx : 1..MaxWin]
Offsets == [x : (0 - MaxOff)..MaxOff, y : (0 - MaxOff)..MaxOff]

\* the ids of the three nodes: all distinct, or two nodes sharing one
NodeIdChoices == {<<"a", "b", "c">>, <<"a", "a", "b">>}
\* the ids an edge is constructed with
EdgeIds == {"e1"} \cup Falsy
\* the node ids an input may refer to
RefIds == {"a", "b", "zz"}

NodeValues ==
    {NotADict, NodeDict({}, NoValue)} \cup {NodeDict({"id"}, i) : i \in RefIds}

\* every shape of input: not a dictionary, or a dictionary holding any subset of
\* the keys with any of the values (an absent key has no value)
Inputs ==
    {NotAnEdgeDict} \cup
    {EdgeDict(ks, i, s, t) :
        ks \in SUBSET {"id", "source", "target"},
        i \in EdgeIds \cup {NoValue}, s \in NodeValues \cup {NotADict},
        t \in NodeValues \cup {NotADict}}

CanonicalInputs ==
    {d \in Inputs :
        /\ ("id" \notin d.keys) => d.id = NoValue
        /\ ("id" \in d.keys) => d.id # NoValue
        /\ ("source" \notin d.keys) => d.source = NotADict
        /\ ("target" \notin d.keys) => d.target = NotADict}

NodeLists == UNION {[1..n -> NodeRefs] : n \in 0..MaxList}

\* the far corner, where node 3 sits out of the way
Far == 2 * MaxDist + 4

InitNodes(places) ==
    {[r \in NodeRefs |->
        IF r = 1 THEN Node("a", 0, 0, s[1], s[2], m[1])
        ELSE IF r = 2 THEN Node("b", p[1], p[2], s[3], s[4], m[2])
        ELSE Node("c", Far, Far, 1, 1, Sides)] :
        p \in places \X places,
        s \in Sizes \X Sizes \X Sizes \X Sizes,
        m \in {{}, Sides} \X {{}, Sides}}

InitRest ==
    /\ pc = "idle"
    /\ lines = <<>>
    /\ resets = <<>>
    /\ win = NoWindow
    /\ offset = Offset(0, 0)
    /\ calls = <<>>
    /\ data = NotAnEdgeDict
    /\ nodelist = <<>>
    /\ result = Pending

Init ==
    /\ nodes \in InitNodes(Coords)
    /\ edge \in {Edge(1, 2, "e1", "u1"), Edge(2, 1, "e1", "u1")}
    /\ InitRest

\* between two frames a node is dragged by one cell
MoveNode(r, x, y) ==
    /\ pc = "idle"
    /\ Abs(x - nodes[r].x) + Abs(y - nodes[r].y) = 1
    /\ nodes' = [nodes EXCEPT ![r] = Node(@.id, x, y, @.width, @.height, @.marked)]
    /\ UNCHANGED <<edge, routeVars, jsonVars>>

RECURSIVE reset_all(_, _)
reset_all(ns, rs) ==
    IF rs = <<>> THEN ns ELSE reset_all(reset_edges(ns, Head(rs)), Tail(rs))

\* mutant: the call reorders the edge's endpoints in place, left node first
GetLineBreakdown_reordered ==
    /\ pc = "idle"
    /\ nodes' = reset_all(nodes, reset_targets(nodes, edge))
    /\ resets' = reset_targets(nodes, edge)
    /\ lines' = get_line_breakdown(nodes', edge)
    /\ pc' = "routed"
    /\ edge' = [edge EXCEPT !.source = determine_relative_nodes(nodes, edge)[1],
                            !.target = determine_relative_nodes(nodes, edge)[2]]
    /\ UNCHANGED <<win, offset, calls, jsonVars>>

\* Edge.get_line_breakdown()
GetLineBreakdown ==
    /\ pc = "idle"
    /\ nodes' = reset_all(nodes, reset_targets(nodes, edge))
    /\ resets' = reset_targets(nodes, edge)
    /\ lines' = get_line_breakdown(nodes', edge)
    /\ pc' = "routed"
    /\ UNCHANGED <<edge, win, offset, calls, jsonVars>>

\* Edge.connect_nodes(win, offset), as Edge.render calls it once a frame
ConnectNodes(w, off) ==
    /\ pc = "idle"
    /\ nodes' = reset_all(nodes, reset_targets(nodes, edge))
    /\ resets' = reset_targets(nodes, edge)
    /\ lines' = get_line_breakdown(nodes', edge)
    /\ win' = w
    /\ offset' = off
    /\ calls' = draw_lines(lines', off, w)
    /\ pc' = "drawn"
    /\ UNCHANGED <<edge, jsonVars>>

\* the call returned: its list and its draw calls are gone, the nodes stay
EndFrame ==
    /\ pc \in {"routed", "drawn"}
    /\ pc' = "idle"
    /\ lines' = <<>>
    /\ resets' = <<>>
    /\ win' = NoWindow
    /\ offset' = Offset(0, 0)
    /\ calls' = <<>>
    /\ UNCHANGED <<nodes, edge, jsonVars>>

Next ==
    \/ \E x, y \in Coords : MoveNode(2, x, y)
    \/ GetLineBreakdown
    \/ EndFrame

Spec == Init /\ [][Next]_vars

(* Frames rendered through a window and a viewport offset *)

InitRender ==
    /\ nodes \in {ns \in InitNodes(RenderCoords) : ns[1].marked = {} /\ ns[2].marked = {}}
    /\ edge \in {Edge(1, 2, "e1", "u1"), Edge(2, 1, "e1", "u1")}
    /\ InitRest

NextRender ==
    \/ \E x, y \in RenderCoords : MoveNode(2, x, y)
    \/ \E w \in Windows, off \in Offsets : ConnectNodes(w, off)
    \/ EndFrame

SpecRender == InitRender /\ [][NextRender]_vars

(* Edges saved and loaded *)

InitJson ==
    /\ \E ids \in NodeIdChoices :
          nodes = [r \in NodeRefs |-> Node(ids[r], 3 * r, 0, 1, 1, {})]
    /\ edge = Edge(1, 2, "e1", "u1")
    /\ InitRest

\* Edge(source, target, edge_id)
NewEdge(s, t, i) ==
    /\ pc = "idle"
    /\ \E u \in Uuids \ {edge.id} : edge' = Edge(s, t, i, u)
    /\ UNCHANGED <<nodes, routeVars, jsonVars>>

\* data = edge.to_json()
Serialize ==
    /\ pc = "idle"
    /\ data' = to_json(nodes, edge)
    /\ pc' = "loading"
    /\ UNCHANGED <<nodes, edge, lines, resets, win, offset, calls, nodelist, result>>

\* any other input arrives
Receive(d) ==
    /\ pc = "idle"
    /\ data' = d
    /\ pc' = "loading"
    /\ UNCHANGED <<nodes, edge, lines, resets, win, offset, calls, nodelist, result>>

\* Edge.from_json(data, nodes)
Deserialize(nl) ==
    /\ pc = "loading"
    /\ \E u \in Uuids \ {edge.id} : result' = from_json(nodes, data, nl, u)
    /\ nodelist' = nl
    /\ pc' = "loaded"
    /\ UNCHANGED <<nodes, edge, data, lines, resets, win, offset, calls>>

\* the caller is done with the outcome
Discard ==
    /\ pc = "loaded"
    /\ pc' = "idle"
    /\ data' = NotAnEdgeDict
    /\ nodelist' = <<>>
    /\ result' = Pending
    /\ UNCHANGED <<nodes, edge, lines, resets, win, offset, calls>>

NextJson ==
    \/ \E s, t \in NodeRefs, i \in EdgeIds : NewEdge(s, t, i)
    \/ Serialize
    \/ \E d \in CanonicalInputs : Receive(d)
    \/ \E nl \in NodeLists : Deserialize(nl)
    \/ Discard

SpecJson == InitJson /\ [][NextJson]_vars

----------------------------------------------------------------------------
(* Properties of the routing *)

Routed == pc \in {"routed", "drawn"}

IsRun(l) == l.type \in {"horizontal", "vertical"}
IsCorner(l) == ~IsRun(l)
Corners(ls) == SelectSeq(ls, IsCorner)
Runs(ls) == SelectSeq(ls, IsRun)

\* the vertical-biased connector ends its list with a vertical run, the
\* horizontal-biased one with a horizontal run
UsedVertical(ls) == ls[Len(ls)].type = "vertical"

SourceNode == nodes[edge.source]
TargetNode == nodes[edge.target]
CenterXDiff == Abs(SourceNode.center_x - TargetNode.center_x)
CenterYDiff == Abs(SourceNode.center_y - TargetNode.center_y)

LeftNode == nodes[determine_relative_nodes(nodes, edge)[1]]
RightNode == nodes[determine_relative_nodes(nodes, edge)[2]]
TopNode == nodes[determine_relative_nodes(nodes, edge)[3]]
BottomNode == nodes[determine_relative_nodes(nodes, edge)[4]]

\* C1: the vertical-biased connector routes the edge if and only if the
\* absolute difference of the two centers' x is 0 or at most that of their y
\* (a tie goes vertical); otherwise the horizontal-biased connector does.
C1_BiasRule ==
    Routed =>
        (UsedVertical(lines) <=> (CenterXDiff = 0 \/ CenterXDiff <= CenterYDiff))

\* a tie of two non-zero differences, routed vertically
C1_Witness ==
    /\ Routed
    /\ CenterXDiff = CenterYDiff
    /\ CenterXDiff > 0
    /\ UsedVertical(lines)

\* the nodes with the centers of nodes 1 and 2 exchanged on one axis
MirrorX(ns) ==
    [ns EXCEPT
        ![1] = Node(@.id, ns[2].center_x - @.width \div 2, @.y, @.width, @.height, @.marked),
        ![2] = Node(@.id, ns[1].center_x - @.width \div 2, @.y, @.width, @.height, @.marked)]

MirrorY(ns) ==
    [ns EXCEPT
        ![1] = Node(@.id, @.x, ns[2].center_y - @.height \div 2, @.width, @.height, @.marked),
        ![2] = Node(@.id, @.x, ns[1].center_y - @.height \div 2, @.width, @.height, @.marked)]

CornerTypes(ls) == [i \in 1..Len(Corners(ls)) |-> Corners(ls)[i].type]

\* C2: no corner glyph when the two centers are equal on the cross axis and
\* exactly two when they differ; under vertical bias the pair is (bottom-right
\* at the top node, top-left at the bottom node) when the top node's center is
\* further right and (bottom-left, top-right) when it is further left; in both
\* connectors the pair of the mirrored offset is the other pair.
C2_Corners ==
    Routed =>
        IF UsedVertical(lines)
        THEN IF TopNode.center_x = BottomNode.center_x
             THEN Len(Corners(lines)) = 0
             ELSE /\ Len(Corners(lines)) = 2
                  /\ Corners(lines)[1].x = TopNode.center_x
                  /\ Corners(lines)[2].x = BottomNode.center_x
                  /\ TopNode.center_x > BottomNode.center_x
                        => CornerTypes(lines) = <<"ACS_LRCORNER", "ACS_ULCORNER">>
                  /\ TopNode.center_x < BottomNode.center_x
                        => CornerTypes(lines) = <<"ACS_LLCORNER", "ACS_URCORNER">>
                  /\ Len(Corners(get_line_breakdown(MirrorX(nodes), edge))) = 2
                  /\ CornerTypes(get_line_breakdown(MirrorX(nodes), edge))
                        # CornerTypes(lines)
        ELSE IF LeftNode.center_y = RightNode.center_y
             THEN Len(Corners(lines)) = 0
             ELSE /\ Len(Corners(lines)) = 2
                  /\ Len(Corners(get_line_breakdown(MirrorY(nodes), edge))) = 2
                  /\ CornerTypes(get_line_breakdown(MirrorY(nodes), edge))
                        # CornerTypes(lines)

\* a vertical routing whose top node is further right: two corner glyphs
C2_Witness ==
    /\ Routed
    /\ UsedVertical(lines)
    /\ TopNode.center_x > BottomNode.center_x
    /\ Len(Corners(lines)) = 2

\* the cells a segment covers when drawn: a run of length <= 0 covers none
CellsOf(l) ==
    IF l.type = "vertical" THEN {<<l.x, l.y + k>> : k \in 0..(l.length - 1)}
    ELSE IF l.type = "horizontal" THEN {<<l.x + k, l.y>> : k \in 0..(l.length - 1)}
    ELSE {<<l.x, l.y>>}

Cells(ls) == UNION {CellsOf(ls[i]) : i \in 1..Len(ls)}

Neighbours(c, cs) ==
    {d \in cs : Abs(d[1] - c[1]) + Abs(d[2] - c[2]) = 1}

RECURSIVE Reach(_, _)
Reach(seen, cs) ==
    LET more == UNION {Neighbours(c, cs) : c \in seen} \ seen
    IN  IF more = {} THEN seen ELSE Reach(seen \cup more, cs)

\* on the boundary of the node's body (half its size around its center) or on
\* the ring of cells around it
NearBoundary(c, n) ==
    LET dx == Abs(c[1] - n.center_x)
        dy == Abs(c[2] - n.center_y)
    IN  /\ dx <= n.width \div 2 + 1
        /\ dy <= n.height \div 2 + 1
        /\ ~(dx < n.width \div 2 /\ dy < n.height \div 2)

\* one gap-free path from a cell at one node to a cell at the other
IsPathBetween(cs, a, b) ==
    /\ cs # {}
    /\ Reach({CHOOSE c \in cs : TRUE}, cs) = cs
    /\ \A c \in cs : Cardinality(Neighbours(c, cs)) <= 2
    /\ LET ends == {c \in cs : Cardinality(Neighbours(c, cs)) <= 1}
       IN  \E p, q \in ends :
              /\ ends = {p, q}
              /\ NearBoundary(p, a)
              /\ NearBoundary(q, b)

\* the lengths of the two half runs, those along the biased axis
HalfRunLengths(ls) ==
    LET axis == IF UsedVertical(ls) THEN "vertical" ELSE "horizontal"
    IN  {ls[i].length : i \in {j \in 1..Len(ls) : ls[j].type = axis}}

\* C3 as claimed: for every pair of nodes the cells the list covers form one
\* gap-free path from the boundary of one node to the boundary of the other.
C3_AlwaysPath ==
    Routed => IsPathBetween(Cells(lines), SourceNode, TargetNode)

\* C3, amended: whenever both half runs are emitted with a length of at least
\* 1, the cells the list covers form one gap-free path from a cell on or next
\* to the boundary of one node to a cell on or next to the boundary of the other.
C3_PathWhenRoom ==
    (Routed /\ \A n \in HalfRunLengths(lines) : n >= 1)
        => IsPathBetween(Cells(lines), SourceNode, TargetNode)

\* a routing with two corners and two half runs of positive length
C3_Witness ==
    /\ Routed
    /\ \A n \in HalfRunLengths(lines) : n >= 1
    /\ Len(Corners(lines)) = 2
    /\ ~UsedVertical(lines)

\* the two half runs, those along the biased axis, in the order of the list
HalfRuns(ls) ==
    SelectSeq(ls, LAMBDA l : l.type = (IF UsedVertical(ls) THEN "vertical" ELSE "horizontal"))

\* the crossbar runs, those across the biased axis
Crossbars(ls) ==
    SelectSeq(ls, LAMBDA l : l.type = (IF UsedVertical(ls) THEN "horizontal" ELSE "vertical"))

\* the difference of the two centers on the biased axis
BiasedDiff == IF UsedVertical(lines) THEN CenterYDiff ELSE CenterXDiff

\* floor(size / 2) of both nodes on the biased axis
BiasedHalfSizes ==
    IF UsedVertical(lines)
    THEN SourceNode.height \div 2 + TargetNode.height \div 2
    ELSE SourceNode.width \div 2 + TargetNode.width \div 2

\* the cells the corner glyphs took from the half runs: one from each half
\* run of the vertical connector, one from the second half run of the
\* horizontal connector
CornerCells ==
    IF Len(Corners(lines)) = 0 THEN 0 ELSE IF UsedVertical(lines) THEN 2 ELSE 1

\* C11: the two halves of the split sum to the difference of the centers on
\* the biased axis: of a straight connection the two half run lengths sum to
\* that difference minus floor(size / 2) of each node, and of a connection
\* with corners that sum is short of it only by the cells the corners took.
C11_HalvesSum ==
    Routed =>
        /\ Len(HalfRuns(lines)) = 2
        /\ HalfRuns(lines)[1].length + HalfRuns(lines)[2].length
              = BiasedDiff - BiasedHalfSizes - CornerCells

\* a straight vertical connection over an odd difference between two nodes
\* of height 2
C11_Witness ==
    /\ Routed
    /\ UsedVertical(lines)
    /\ Len(Corners(lines)) = 0
    /\ CenterYDiff = 5
    /\ SourceNode.height = 2 /\ TargetNode.height = 2
    /\ HalfRuns(lines)[1].length + HalfRuns(lines)[2].length = 3

\* the nodes built anew from their positions and sizes alone, with markers m
Rebuilt(ns, m) ==
    [r \in NodeRefs |-> Node(ns[r].id, ns[r].x, ns[r].y, ns[r].width, ns[r].height, m)]

Geometry(ns) ==
    [r \in NodeRefs |->
        <<ns[r].x, ns[r].y, ns[r].width, ns[r].height, ns[r].center_x, ns[r].center_y>>]

C13_ResetsEndpoints ==
    Routed =>
        /\ Len(resets) = 2
        /\ {resets[1], resets[2]} = {edge.source, edge.target}
        /\ IF UsedVertical(lines)
           THEN nodes[resets[1]].y <= nodes[resets[2]].y
           ELSE nodes[resets[1]].x <= nodes[resets[2]].x
        /\ SourceNode.marked = {}
        /\ TargetNode.marked = {}
        /\ \A r \in NodeRefs \ {edge.source, edge.target} : nodes[r].marked = Sides

\* a horizontal routing: the left node, then the right node were reset, and
\* the node that is no endpoint keeps its markers
C13_Witness ==
    /\ Routed
    /\ ~UsedVertical(lines)
    /\ nodes[resets[1]].x < nodes[resets[2]].x
    /\ {resets[1], resets[2]} = {edge.source, edge.target}
    /\ SourceNode.marked = {} /\ TargetNode.marked = {}
    /\ nodes[3].marked = Sides

\* C14 (as stated): under vertical bias the crossbar starts at the smaller of
\* left.center_x and right.center_x + 1.
C14_StartsAtSmaller ==
    (Routed /\ UsedVertical(lines)) =>
        Crossbars(lines)[1].x = (IF LeftNode.center_x < RightNode.center_x + 1
                                 THEN LeftNode.center_x
                                 ELSE RightNode.center_x + 1)

\* C14: the vertical-biased connector emits exactly one horizontal crossbar,
\* of length x_diff, on the row the bottom half run reaches up to (the bottom
\* corner's row when corners exist), starting at left.center_x when
\* left.center_x < right.center_x and at right.center_x + 1 otherwise; the
\* horizontal-biased connector emits exactly one vertical crossbar, of length
\* y_diff.
C14_Crossbar ==
    Routed =>
        /\ Len(Crossbars(lines)) = 1
        /\ LET c == Crossbars(lines)[1]
               corner == IF Len(Corners(lines)) = 0 THEN 0 ELSE 1
           IN  IF UsedVertical(lines)
               THEN /\ c.length = CenterXDiff
                    /\ c.y = HalfRuns(lines)[2].y - corner
                    /\ Len(Corners(lines)) # 0 => c.y = Corners(lines)[2].y
                    /\ c.x = (IF LeftNode.center_x < RightNode.center_x
                              THEN LeftNode.center_x
                              ELSE RightNode.center_x + 1)
               ELSE c.length = CenterYDiff

\* two nodes with the same center column: the crossbar has length 0 and sits
\* one column right of the centers
C14_Witness ==
    /\ Routed
    /\ UsedVertical(lines)
    /\ LeftNode.center_x = RightNode.center_x
    /\ CenterYDiff = 4
    /\ Len(Crossbars(lines)) = 1
    /\ Crossbars(lines)[1].length = 0
    /\ Crossbars(lines)[1].x = RightNode.center_x + 1

\* C15 (as stated): the router's left node has the smaller center_x and its
\* top node the smaller center_y.
C15_OrderedByCenter ==
    Routed => /\ LeftNode.center_x <= RightNode.center_x
              /\ TopNode.center_y <= BottomNode.center_y

\* C15: the router's left node is chosen by comparing the two nodes' x and
\* its top node by comparing their y, independently of each other, and a tie
\* makes the target the left (top) node: left.x <= right.x and
\* top.y <= bottom.y always hold, the centers may be in the opposite order, and
\* the crossbar's length is the absolute value of the centers' difference.
C15_OrderedByPosition ==
    Routed =>
        /\ {LeftNode.id, RightNode.id} = {SourceNode.id, TargetNode.id}
        /\ {TopNode.id, BottomNode.id} = {SourceNode.id, TargetNode.id}
        /\ LeftNode.x <= RightNode.x
        /\ TopNode.y <= BottomNode.y
        /\ LeftNode.x = RightNode.x => LeftNode = TargetNode
        /\ TopNode.y = BottomNode.y => TopNode = TargetNode
        /\ Crossbars(lines)[1].length =
              (IF UsedVertical(lines)
               THEN Abs(RightNode.center_x - LeftNode.center_x)
               ELSE Abs(BottomNode.center_y - TopNode.center_y))
        /\ IF UsedVertical(lines)
           THEN nodes[resets[1]] = TopNode /\ nodes[resets[2]] = BottomNode
           ELSE nodes[resets[1]] = LeftNode /\ nodes[resets[2]] = RightNode

\* two nodes on the same column of which the left one is the wider: its
\* center is right of the right node's center
C15_Witness ==
    /\ Routed
    /\ UsedVertical(lines)
    /\ LeftNode.x = RightNode.x
    /\ LeftNode.center_x > RightNode.center_x
    /\ LeftNode = TargetNode
    /\ Crossbars(lines)[1].length = 1

\* the pair with x and y, width and height (and so the centers) exchanged
Transposed(ns) ==
    [r \in NodeRefs |->
        Node(ns[r].id, ns[r].y, ns[r].x, ns[r].height, ns[r].width, ns[r].marked)]

\* a segment with its axes exchanged; a corner keeps only its cell
TransposedSegment(l) ==
    IF l.type = "horizontal" THEN <<"vertical", l.y, l.x, l.length>>
    ELSE IF l.type = "vertical" THEN <<"horizontal", l.y, l.x, l.length>>
    ELSE <<"corner", l.y, l.x, 0>>

PlainSegment(l) ==
    IF IsRun(l) THEN <<l.type, l.x, l.y, l.length>> ELSE <<"corner", l.x, l.y, 0>>

\* the transposed pair routed with the horizontal-biased connector
HorizontalOfTransposed ==
    LET ns == Transposed(nodes)
        rel == determine_relative_nodes(ns, edge)
    IN  create_horizontal_connection(ns[rel[1]], ns[rel[2]], ns[rel[3]], ns[rel[4]],
                                     x_diff_of(ns, edge), y_diff_of(ns, edge))

\* C16: for every pair routed with vertical bias, the horizontal-biased
\* connector applied to the transposed pair yields the transposed segments:
\* each run with its axes exchanged and the same length, each corner at the
\* transposed cell.
C16_Mirror ==
    (Routed /\ UsedVertical(lines)) =>
        {TransposedSegment(HorizontalOfTransposed[i]) :
            i \in 1..Len(HorizontalOfTransposed)}
          = {PlainSegment(lines[i]) : i \in 1..Len(lines)}

\* the edge between the same two nodes in the other direction
Reversed(e) == [e EXCEPT !.source = e.target, !.target = e.source]

\* a tie on x (on y) between two nodes whose centers differ on that axis
LopsidedTie ==
    \/ SourceNode.x = TargetNode.x /\ SourceNode.center_x # TargetNode.center_x
    \/ SourceNode.y = TargetNode.y /\ SourceNode.center_y # TargetNode.center_y

\* C17 (as stated): the edge in the other direction is routed with the same
\* segment list, for any two nodes.
C17_DirectionFree ==
    Routed => lines = get_line_breakdown(nodes, Reversed(edge))

\* C17: the edge in the other direction is routed with the same segment list
\* exactly when the two nodes do not tie on x with different center_x nor on
\* y with different center_y.
C17_DirectionFreeUnlessTie ==
    Routed => (lines = get_line_breakdown(nodes, Reversed(edge)) <=> ~LopsidedTie)

\* two nodes apart on both axes, routed with corners, the same in both
\* directions
C17_Witness ==
    /\ Routed
    /\ ~LopsidedTie
    /\ SourceNode.x # TargetNode.x /\ SourceNode.y # TargetNode.y
    /\ SourceNode.width # TargetNode.width
    /\ Len(Corners(lines)) = 2
    /\ lines = get_line_breakdown(nodes, Reversed(edge))

----------------------------------------------------------------------------
(* Properties of the rendering *)

Drawn == pc = "drawn"

IsRunCall(c) == c.fn \in {"hline", "vline"}
RunCalls(cs) == SelectSeq(cs, IsRunCall)
GlyphCalls(cs) == SelectSeq(cs, LAMBDA c : c.fn = "addch")

\* the position of a segment on the window before it is clamped
NormalizedX(l) == l.x - offset.x
NormalizedY(l) == l.y - offset.y

InsideWindow(l) ==
    /\ 0 <= NormalizedX(l) /\ NormalizedX(l) < win.maxx
    /\ 0 <= NormalizedY(l) /\ NormalizedY(l) < win.maxy

Min(a, b) == IF a < b THEN a ELSE b
Max(a, b) == IF a > b THEN a ELSE b

\* C4 as claimed: connect_nodes never hands win.hline or win.vline a negative
\* length.
C4_NoNegativeLength ==
    Drawn => \A i \in 1..Len(calls) : IsRunCall(calls[i]) => calls[i].n >= 0

\* C9: one draw call for each run, in the order of the list; one for each
\* corner glyph whose unclamped position is inside the window and none for the
\* others; the row and the column of every call are inside the window, each
\* the clamped coordinate of its own axis.
C9_CallsInWindow ==
    Drawn =>
        /\ Len(RunCalls(calls)) = Len(Runs(lines))
        /\ \A i \in 1..Len(Runs(lines)) :
              LET l == Runs(lines)[i]
                  c == RunCalls(calls)[i]
              IN  /\ c.fn = (IF l.type = "vertical" THEN "vline" ELSE "hline")
                  /\ c.x = Max(0, Min(win.maxx - 1, NormalizedX(l)))
                  /\ c.y = Max(0, Min(win.maxy - 1, NormalizedY(l)))
        /\ LET seen == SelectSeq(Corners(lines), InsideWindow)
           IN  /\ Len(GlyphCalls(calls)) = Len(seen)
               /\ \A i \in 1..Len(seen) :
                     /\ GlyphCalls(calls)[i].ch = seen[i].type
                     /\ GlyphCalls(calls)[i].x = NormalizedX(seen[i])
                     /\ GlyphCalls(calls)[i].y = NormalizedY(seen[i])
        /\ \A i \in 1..Len(calls) :
              /\ 0 <= calls[i].y /\ calls[i].y < win.maxy
              /\ 0 <= calls[i].x /\ calls[i].x < win.maxx

\* a frame with a run clamped at the right edge of the window, a corner glyph
\* drawn and a corner glyph left out
C9_Witness ==
    /\ Drawn
    /\ \E i \in 1..Len(lines) :
          IsRun(lines[i]) /\ NormalizedX(lines[i]) >= win.maxx
    /\ \E i \in 1..Len(lines) : IsCorner(lines[i]) /\ InsideWindow(lines[i])
    /\ \E i \in 1..Len(lines) : IsCorner(lines[i]) /\ ~InsideWindow(lines[i])

\* C10 as claimed: the run drawn ends where the run ends: the clamped start
\* along the axis of the run plus the length drawn is the unclamped start plus
\* the length of the run.
C10_EndsAtEndpoint ==
    Drawn =>
        \A i \in 1..Len(Runs(lines)) :
            LET l == Runs(lines)[i]
                c == RunCalls(calls)[i]
            IN  IF l.type = "vertical"
                THEN c.y + c.n = NormalizedY(l) + l.length
                ELSE c.x + c.n = NormalizedX(l) + l.length

----------------------------------------------------------------------------
(* Properties of the serialization *)

Loaded == pc = "loaded"

Listed(nl) == {nl[i] : i \in 1..Len(nl)}

\* the checks of the structure: both keys, both values dictionaries with an id
WellFormed(d) ==
    /\ d.isdict
    /\ {"source", "target"} \subseteq d.keys
    /\ d.source.isdict /\ d.target.isdict
    /\ "id" \in d.source.keys /\ "id" \in d.target.keys

\* an id of the input is the id of no node of the list
Dangling(ns, d, nl) ==
    \/ \A r \in Listed(nl) : ns[r].id # d.source.id
    \/ \A r \in Listed(nl) : ns[r].id # d.target.id

\* C5: from_json of an edge's to_json, with both endpoints in the node list,
\* returns an edge with the id of that edge whose source and target are nodes
\* of the list with the ids of its source and target.
C5_RoundTrip ==
    (/\ Loaded
     /\ data = to_json(nodes, edge)
     /\ {edge.source, edge.target} \subseteq Listed(nodelist))
        => /\ result.kind = "edge"
           /\ result.edge.id = edge.id
           /\ result.edge.source \in Listed(nodelist)
           /\ result.edge.target \in Listed(nodelist)
           /\ nodes[result.edge.source].id = nodes[edge.source].id
           /\ nodes[result.edge.target].id = nodes[edge.target].id

\* an edge between two nodes of different ids, loaded back from its own JSON
C5_Witness ==
    /\ Loaded
    /\ data = to_json(nodes, edge)
    /\ {edge.source, edge.target} \subseteq Listed(nodelist)
    /\ nodes[edge.source].id # nodes[edge.target].id
    /\ result.kind = "edge"

\* C6: a well-formed input whose source id or target id is the id of no node
\* of the list fails with the not-found error and yields no edge, and the
\* nodes are left as they were.
C6_NotFound ==
    [][(/\ pc' = "loaded"
        /\ WellFormed(data')
        /\ Dangling(nodes, data', nodelist'))
          => /\ result'.kind = "not_found_error"
             /\ result'.edge = NoEdge
             /\ nodes' = nodes
             /\ data' = data]_vars

\* a well-formed input whose source is in the list and whose target is not
C6_Witness ==
    /\ Loaded
    /\ WellFormed(data)
    /\ \E r \in Listed(nodelist) : nodes[r].id = data.source.id
    /\ \A r \in Listed(nodelist) : nodes[r].id # data.target.id
    /\ result.kind = "not_found_error"

\* C7: an input without the 'source' or the 'target' key, or with one of them
\* not a dictionary or without an 'id', fails with the format error, also when
\* it refers to a node that is not in the list.
C7_FormatFirst ==
    (Loaded /\ ~WellFormed(data)) => result.kind = "format_error"

\* a source that refers to an unknown node and a target without an id
C7_Witness ==
    /\ Loaded
    /\ data.isdict
    /\ {"source", "target"} \subseteq data.keys
    /\ data.source = NodeDict({"id"}, "zz")
    /\ data.target = NodeDict({}, NoValue)
    /\ result.kind = "format_error"

\* C8 as claimed: from_json returns an edge, fails with the format error or
\* fails with the not-found error, and in no other way.
C8_ThreeOutcomes ==
    Loaded => result.kind \in {"edge", "format_error", "not_found_error"}

====
